---------------------------- MODULE Spec2Model ----------------------------
(***************************************************************************)
(* A model of bumpo's game objects (src/src/gameObjects.py,                *)
(* src/src/baseObjects.py, src/src/gameUtils.py):                          *)
(*   - pygame.Rect's integer geometry, as the objects use it;              *)
(*   - GenericGameObject.move_bouncing (specification SpecBounce);         *)
(*   - Cell and its bound item (specification SpecCell);                   *)
(*   - Grid build/update/resize/move/shuffle (specification SpecGrid);     *)
(*   - Shape / GameObject resize, fit and rect attributes (SpecShape);     *)
(*   - Table construction, item assignment and shuffle (SpecTable).        *)
(* Every specification moves its own variables and leaves the others at    *)
(* their initial values.                                                   *)
(***************************************************************************)
EXTENDS Integers, Sequences, FiniteSets, TLC

VARIABLES
    obj,        \* SpecBounce: the object's rect
    velocity,   \* SpecBounce: the object's velocity attribute
    used,       \* SpecBounce: the delta (x, y) the last move_bouncing used
    given,      \* SpecBounce: whether the last move_bouncing got a velocity
    bounced,    \* SpecBounce: a move_bouncing call has returned
    cellRect,   \* SpecCell: the cell's rect
    cellVel,    \* SpecCell: the cell's velocity attribute
    hasItem,    \* SpecCell: an item is bound to the cell
    item,       \* SpecCell: the bound item's rect
    itemFresh,  \* SpecCell: after the last call, item.rect is what
                \*           update_item yields on the cell's rect and rules
    rules,      \* SpecCell: the cell's _item_attrs, an index into RuleSets
    cellOp,     \* SpecCell: the last Cell method called
    cellUpd,    \* SpecCell: the update argument of that call (TRUE if none)
    gridRect,   \* SpecGrid: the grid's rect
    gRow,       \* SpecGrid: _row
    gCol,       \* SpecGrid: _col
    gCells,     \* SpecGrid: _grid, (row, col) -> [id, rect] of the cell object
    gridOp,     \* SpecGrid: the last Grid method called
    shKind,     \* SpecShape: the object's class: "Shape" (baseObjects) or
                \*            "GenericGameObject" (gameObjects)
    shRect,     \* SpecShape: the object's rect
    shSurf,     \* SpecShape: the size (w, h) of the object's surface
    shOp,       \* SpecShape: the last method called
    shArgs,     \* SpecShape: the (w, h) passed, when the last call was a
                \*            resize ((0, 0) when not)
    shErr,      \* SpecShape: the last call raised an error
    shTarget,   \* SpecShape: the rect passed, when the last call was a fit
                \*            or a clamp (NoTarget when not)
    tRow,       \* SpecTable: _row
    tCol,       \* SpecTable: _col
    tEmpty,     \* SpecTable: _empty
    tGrid,      \* SpecTable: _grid, a function from its keys to their values
    tSeq,       \* SpecTable: the seq the constructor got, when the table
                \*            comes straight from the constructor (else empty)
    tOp,        \* SpecTable: the last Table method called
    callOp,     \* the last query method or module function called
    callArgs,   \* the arguments of that call
    callRet,    \* what that call returned or raised
    start_position,   \* SpecCellRect: the cell's start_position (its
                      \*               start_attr stays 'center')
    original_surface, \* SpecCellRect: the size of the cell's original_surface
    actions,          \* SpecActions: the object's action groups, a function
                      \*              from the groups to their lists of entries
    cmp_value,        \* SpecCompare: _cmp_value of each object, by number
    classes           \* SpecImage: Image._classes, the registered classes

bounceVars == <<obj, velocity, used, given, bounced>>

cellVars ==
    <<cellRect, cellVel, hasItem, item, itemFresh, rules, cellOp, cellUpd>>

gridVars == <<gridRect, gRow, gCol, gCells, gridOp>>

shapeVars == <<shKind, shRect, shSurf, shOp, shArgs, shErr, shTarget>>

tableVars == <<tRow, tCol, tEmpty, tGrid, tSeq, tOp>>

callVars == <<callOp, callArgs, callRet>>

startVars == <<start_position, original_surface>>

actionVars == <<actions>>

compareVars == <<cmp_value>>

registryVars == <<classes>>

vars ==
    <<bounceVars, cellVars, gridVars, shapeVars, tableVars, callVars,
      startVars, actionVars, compareVars, registryVars>>

notBounce == <<cellVars, gridVars, shapeVars, tableVars, callVars, startVars, actionVars, compareVars, registryVars>>

notCell == <<bounceVars, gridVars, shapeVars, tableVars, callVars, startVars, actionVars, compareVars, registryVars>>

notGrid == <<bounceVars, cellVars, shapeVars, tableVars, callVars, startVars, actionVars, compareVars, registryVars>>

notShape == <<bounceVars, cellVars, gridVars, tableVars, callVars, startVars, actionVars, compareVars, registryVars>>

notTable == <<bounceVars, cellVars, gridVars, shapeVars, callVars, startVars, actionVars, compareVars, registryVars>>

notCall == <<bounceVars, cellVars, gridVars, shapeVars, tableVars, startVars, actionVars, compareVars, registryVars>>

notBounceCall == <<cellVars, gridVars, shapeVars, tableVars, startVars, actionVars, compareVars, registryVars>>

notRegistryCall ==
    <<bounceVars, cellVars, gridVars, shapeVars, tableVars, startVars,
      actionVars, compareVars>>

notCompareCall ==
    <<bounceVars, cellVars, gridVars, shapeVars, tableVars, startVars, actionVars, registryVars>>

notActionsCall ==
    <<bounceVars, cellVars, gridVars, shapeVars, tableVars, startVars, compareVars, registryVars>>

(***************************************************************************)
(* Bounds of the model.                                                    *)
(***************************************************************************)
MaxV == 2
BoundW == 3
BoundH == 3
MaxObj == 4
MaxPos == 2
MaxGSize == 2
MaxSize == 2
MaxSeq == 3

(***************************************************************************)
(* pygame.Rect: a record [x, y, w, h] of integers; points and sizes are    *)
(* pairs <<a, b>>.                                                         *)
(***************************************************************************)
Rect(x, y, w, h) == [x |-> x, y |-> y, w |-> w, h |-> h]

Min(a, b) == IF a <= b THEN a ELSE b

Max(a, b) == IF a >= b THEN a ELSE b

Left(r) == r.x

Top(r) == r.y

Right(r) == r.x + r.w

Bottom(r) == r.y + r.h

CenterX(r) == r.x + (r.w \div 2)

CenterY(r) == r.y + (r.h \div 2)

\* Rect.move(x, y): a new rect moved by the offset.
RectMove(r, dx, dy) == [r EXCEPT !.x = r.x + dx, !.y = r.y + dy]

\* Rect.clamp(b) on one axis: centred when it does not fit, else moved the
\* least distance that puts it inside.
ClampAxis(p, len, bp, blen) ==
    IF len >= blen THEN bp + (blen \div 2) - (len \div 2)
    ELSE IF p < bp THEN bp
    ELSE IF p + len > bp + blen THEN bp + blen - len
    ELSE p

RectClampNoop(r, b) == r

RectClamp(r, b) ==
    [r EXCEPT !.x = ClampAxis(r.x, r.w, b.x, b.w),
              !.y = ClampAxis(r.y, r.h, b.y, b.h)]

\* Rect.contains(r) of b: r lies inside b, and r's origin lies strictly
\* before b's right and bottom edges.
RectContains(b, r) ==
    /\ b.x <= r.x
    /\ b.y <= r.y
    /\ b.x + b.w >= r.x + r.w
    /\ b.y + b.h >= r.y + r.h
    /\ b.x + b.w > r.x
    /\ b.y + b.h > r.y

\* Rect.fit(t): the rect scaled by one ratio to the largest size that goes
\* into t, and centred in t.  Rect.fit divides in floating point and
\* truncates; the quotients are taken exactly here.
RectFit(r, t) ==
    LET wide == r.w * t.h >= r.h * t.w
        w == IF wide THEN t.w ELSE (r.w * t.h) \div r.h
        h == IF wide THEN (r.h * t.w) \div r.w ELSE t.h
    IN  Rect(t.x + ((t.w - w) \div 2), t.y + ((t.h - h) \div 2), w, h)

RectUnionFirst(a, b) == a

\* Rect.union(b): the smallest rect covering both.
RectUnion(a, b) ==
    LET x == Min(a.x, b.x)
        y == Min(a.y, b.y)
    IN  Rect(x, y, Max(a.x + a.w, b.x + b.w) - x, Max(a.y + a.h, b.y + b.h) - y)

(***************************************************************************)
(* The values of the variables a specification does not move.              *)
(***************************************************************************)
\* GenericGameObject.__init__: self.velocity = [5, 7]
DefaultVelocity == <<5, 7>>

BounceIdle ==
    /\ obj = Rect(0, 0, 0, 0)
    /\ velocity = <<0, 0>>
    /\ used = <<0, 0>>
    /\ given = FALSE
    /\ bounced = FALSE

CellIdle ==
    /\ cellRect = Rect(0, 0, 0, 0)
    /\ cellVel = DefaultVelocity
    /\ hasItem = FALSE
    /\ item = Rect(0, 0, 0, 0)
    /\ itemFresh = TRUE
    /\ rules = 1
    /\ cellOp = "init"
    /\ cellUpd = TRUE

\* iter_pos(): the positions (row, col) of a rows x cols grid or table.
Positions(rows, cols) == (0 .. rows - 1) \X (0 .. cols - 1)

\* Grid.__init__: no rows, no columns, no cells, rect (0, 0, 0, 0).
GridIdle ==
    /\ gridRect = Rect(0, 0, 0, 0)
    /\ gRow = 0
    /\ gCol = 0
    /\ gCells = [p \in Positions(0, 0) |-> [id |-> 0, rect |-> Rect(0, 0, 0, 0)]]
    /\ gridOp = "init"

NoTarget == Rect(0, 0, 0, 0)

ShapeIdle ==
    /\ shKind = "Shape"
    /\ shRect = Rect(0, 0, 0, 0)
    /\ shSurf = <<0, 0>>
    /\ shOp = "init"
    /\ shArgs = <<0, 0>>
    /\ shErr = FALSE
    /\ shTarget = NoTarget

\* A table that was never constructed.
TableIdle ==
    /\ tRow = 0
    /\ tCol = 0
    /\ tEmpty = << >>
    /\ tGrid = << >>
    /\ tSeq = << >>
    /\ tOp = "none"

\* What the constructor keeps of an object that is neither sent to its
\* start nor rotated.
StartIdle == start_position = <<0, 0>> /\ original_surface = <<0, 0>>

\* An object's action groups before any set_action: defaultdict(list).
ActionsIdle == actions = << >>

\* No object whose comparison key is followed exists.
CompareIdle == cmp_value = << >>

\* Image._classes = []
RegistryIdle == classes = << >>

\* No query method and no module function was called yet.
CallIdle ==
    /\ callOp = "none"
    /\ callArgs = << >>
    /\ callRet = << >>

(***************************************************************************)
(* GenericGameObject.move_bouncing                                         *)
(***************************************************************************)
BounceRect == Rect(1, 1, BoundW, BoundH)

Vel == (-MaxV) .. MaxV

\* The velocity stored for the next call: an axis is negated when the move
\* would bring an edge to or past the bound's edge on that axis.
NewVelocityStrict(r, b, x, y) ==
    << IF Left(r) + x < Left(b) \/ Right(r) + x > Right(b) THEN -x ELSE x,
       IF Bottom(r) + y > Bottom(b) \/ Top(r) + y < Top(b) THEN -y ELSE y >>

NewVelocityKept(r, b, x, y) == <<x, y>>

NewVelocity(r, b, x, y) ==
    << IF Left(r) + x <= Left(b) \/ Right(r) + x >= Right(b) THEN -x ELSE x,
       IF Bottom(r) + y >= Bottom(b) \/ Top(r) + y <= Top(b) THEN -y ELSE y >>

\* move_bouncing(bounce_rect, velocity): hasV is FALSE for the default
\* (None, None), and then the object's own velocity is the delta.
MoveBouncing(hasV, v) ==
    LET x == IF hasV THEN v[1] ELSE velocity[1]
        y == IF hasV THEN v[2] ELSE velocity[2]
    IN  /\ obj' = RectClamp(RectMove(obj, x, y), BounceRect)
        /\ velocity' = NewVelocity(obj, BounceRect, x, y)
        /\ used' = <<x, y>>
        /\ given' = hasV
        /\ bounced' = TRUE
        /\ UNCHANGED notBounce

BounceOwn == MoveBouncing(FALSE, <<0, 0>>)

BounceWith == \E v \in Vel \X Vel : MoveBouncing(TRUE, v)

BounceInit ==
    /\ obj \in { Rect(0, 0, w, h) : w \in 0 .. MaxObj, h \in 0 .. MaxObj }
    /\ velocity \in Vel \X Vel
    /\ used = <<0, 0>>
    /\ given = FALSE
    /\ bounced = FALSE

BounceNext == BounceOwn \/ BounceWith

InitBounce == BounceInit /\ CellIdle /\ GridIdle /\ ShapeIdle /\ TableIdle /\ CallIdle /\ StartIdle /\ ActionsIdle /\ CompareIdle /\ RegistryIdle

SpecBounce == InitBounce /\ [][BounceNext]_vars

FitsBound == obj.w <= BounceRect.w /\ obj.h <= BounceRect.h

\* C2 (as stated): an object no larger than the bound is contained in the
\* bound after every move_bouncing call, whatever the velocity.
C2_ContainedAsStated == (bounced /\ FitsBound) => RectContains(BounceRect, obj)

\* C2 (amended): an object of positive width and height, no larger than the
\* bound, is contained in the bound after every move_bouncing call, whatever
\* the velocity.
C2_Contained ==
    (bounced /\ FitsBound /\ obj.w > 0 /\ obj.h > 0)
        => RectContains(BounceRect, obj)

\* A positive-sized object as wide as the bound has bounced with an explicit
\* velocity that would have carried it out of the bound.
C2_Witness ==
    /\ bounced /\ given
    /\ obj.w = BounceRect.w /\ obj.h > 0 /\ obj.h < BounceRect.h
    /\ used = <<MaxV, MaxV>>
    /\ Bottom(obj) = Bottom(BounceRect)

\* C3: a move_bouncing step moves the rect by the delta in use (the passed
\* velocity, else the object's own velocity before the call), clamps it to
\* the bound, and stores that delta with the x component negated exactly when
\* old.left + x <= bound.left or old.right + x >= bound.right, and the y
\* component negated exactly when old.top + y <= bound.top or
\* old.bottom + y >= bound.bottom, judged on the rect before the move.
C3_BounceStep ==
    [][ LET x == used'[1]
            y == used'[2]
            b == BounceRect
            flipx == (obj.x + x <= b.x) \/ (obj.x + obj.w + x >= b.x + b.w)
            flipy == (obj.y + y <= b.y) \/ (obj.y + obj.h + y >= b.y + b.h)
        IN  /\ (~given') => used' = velocity
            /\ obj' = RectClamp([x |-> obj.x + x, y |-> obj.y + y,
                                 w |-> obj.w, h |-> obj.h], b)
            /\ velocity'[1] = (IF flipx THEN -x ELSE x)
            /\ velocity'[2] = (IF flipy THEN -y ELSE y) ]_vars

\* An object strictly inside the bound has just landed exactly on the
\* bound's right edge with its own velocity: x was reversed, y was kept.
C3_Witness ==
    /\ bounced /\ ~given
    /\ used[1] > 0 /\ used[2] = 0
    /\ velocity = <<-used[1], 0>>
    /\ Right(obj) = Right(BounceRect)
    /\ obj.w > 0 /\ obj.w < BounceRect.w /\ obj.h > 0
    /\ obj.y > BounceRect.y /\ Bottom(obj) < Bottom(BounceRect)

(***************************************************************************)
(* Rect attributes, read (getattr) and assigned (setattr).  Assigning a    *)
(* position attribute moves the rect; assigning a size attribute keeps the *)
(* topleft corner.                                                         *)
(***************************************************************************)
GetAttr(r, a) ==
    CASE a = "x" -> r.x
      [] a = "y" -> r.y
      [] a = "left" -> r.x
      [] a = "top" -> r.y
      [] a = "right" -> r.x + r.w
      [] a = "bottom" -> r.y + r.h
      [] a = "centerx" -> CenterX(r)
      [] a = "centery" -> CenterY(r)
      [] a = "w" -> r.w
      [] a = "width" -> r.w
      [] a = "h" -> r.h
      [] a = "height" -> r.h
      [] a = "size" -> <<r.w, r.h>>
      [] a = "topleft" -> <<r.x, r.y>>
      [] a = "topright" -> <<r.x + r.w, r.y>>
      [] a = "bottomleft" -> <<r.x, r.y + r.h>>
      [] a = "bottomright" -> <<r.x + r.w, r.y + r.h>>
      [] a = "midtop" -> <<CenterX(r), r.y>>
      [] a = "midbottom" -> <<CenterX(r), r.y + r.h>>
      [] a = "midleft" -> <<r.x, CenterY(r)>>
      [] a = "midright" -> <<r.x + r.w, CenterY(r)>>
      [] a = "center" -> <<CenterX(r), CenterY(r)>>

SetAttr(r, a, v) ==
    CASE a = "x" -> [r EXCEPT !.x = v]
      [] a = "y" -> [r EXCEPT !.y = v]
      [] a = "left" -> [r EXCEPT !.x = v]
      [] a = "top" -> [r EXCEPT !.y = v]
      [] a = "right" -> [r EXCEPT !.x = v - r.w]
      [] a = "bottom" -> [r EXCEPT !.y = v - r.h]
      [] a = "centerx" -> [r EXCEPT !.x = v - (r.w \div 2)]
      [] a = "centery" -> [r EXCEPT !.y = v - (r.h \div 2)]
      [] a = "w" -> [r EXCEPT !.w = v]
      [] a = "width" -> [r EXCEPT !.w = v]
      [] a = "h" -> [r EXCEPT !.h = v]
      [] a = "height" -> [r EXCEPT !.h = v]
      [] a = "size" -> [r EXCEPT !.w = v[1], !.h = v[2]]
      [] a = "topleft" -> [r EXCEPT !.x = v[1], !.y = v[2]]
      [] a = "topright" -> [r EXCEPT !.x = v[1] - r.w, !.y = v[2]]
      [] a = "bottomleft" -> [r EXCEPT !.x = v[1], !.y = v[2] - r.h]
      [] a = "bottomright" -> [r EXCEPT !.x = v[1] - r.w, !.y = v[2] - r.h]
      [] a = "midtop" -> [r EXCEPT !.x = v[1] - (r.w \div 2), !.y = v[2]]
      [] a = "midbottom" ->
            [r EXCEPT !.x = v[1] - (r.w \div 2), !.y = v[2] - r.h]
      [] a = "midleft" -> [r EXCEPT !.x = v[1], !.y = v[2] - (r.h \div 2)]
      [] a = "midright" ->
            [r EXCEPT !.x = v[1] - r.w, !.y = v[2] - (r.h \div 2)]
      [] a = "center" ->
            [r EXCEPT !.x = v[1] - (r.w \div 2), !.y = v[2] - (r.h \div 2)]

(***************************************************************************)
(* Cell: a game object with one bound item, positioned by a rule set.      *)
(* A rule is (attr, value); the value is None ("same"), a string naming a  *)
(* cell rect attribute ("ref"), a number or pair ("abs"), or a callable    *)
(* ("call": lambda: cell.rect.<ref> - val).                                *)
(***************************************************************************)
Rule(a, k, ref, v) == [attr |-> a, kind |-> k, ref |-> ref, val |-> v]

RuleSets ==
    << << Rule("center", "same", "", 0) >>,
       << Rule("top", "ref", "bottom", 0) >>,
       << Rule("bottomright", "ref", "topleft", 0) >>,
       << Rule("w", "abs", "", 2), Rule("h", "abs", "", 1),
          Rule("center", "abs", "", <<2, 3>>) >>,
       << Rule("bottom", "call", "bottom", 1),
          Rule("right", "call", "right", 1) >>,
       << Rule("center", "same", "", 0), Rule("w", "ref", "h", 0) >> >>

ApplyRuleSame(it, c, rule) ==
    IF rule.kind = "abs" THEN SetAttr(it, rule.attr, rule.val)
    ELSE SetAttr(it, rule.attr, GetAttr(c, rule.attr))

\* One rule of update_item applied to the item's rect.
ApplyRule(it, c, rule) ==
    CASE rule.kind = "same" -> SetAttr(it, rule.attr, GetAttr(c, rule.attr))
      [] rule.kind = "call" ->
            SetAttr(it, rule.attr, GetAttr(c, rule.ref) - rule.val)
      [] rule.kind = "ref" -> SetAttr(it, rule.attr, GetAttr(c, rule.ref))
      [] rule.kind = "abs" -> SetAttr(it, rule.attr, rule.val)

RECURSIVE ApplyRulesBackwards(_, _, _)
ApplyRulesBackwards(it, c, rs) ==
    IF rs = << >> THEN it
    ELSE ApplyRule(ApplyRulesBackwards(it, c, Tail(rs)), c, Head(rs))

RECURSIVE ApplyRules(_, _, _)
ApplyRules(it, c, rs) ==
    IF rs = << >> THEN it
    ELSE ApplyRules(ApplyRule(it, c, Head(rs)), c, Tail(rs))

\* update_item(): the rules of the set, in order, when an item is bound.
UpdateItem(has, it, c, ri) == IF has THEN ApplyRules(it, c, RuleSets[ri]) ELSE it

URectCell(has, it, c) == c

\* urect: the union of the cell's rect and the item's, when an item is bound.
URect(has, it, c) == IF has THEN RectUnion(c, it) ELSE c

MoveRelativeAxisNew(p, r, n) == n

\* gameutils.move_relative_to(pos, rel, new)
MoveRelativeAxis(p, r, n) ==
    LET d == IF r - p >= 0 THEN r - p ELSE p - r
    IN  IF p > r THEN n + d ELSE n - d

MoveRelativeTo(pos, rel, new) ==
    << MoveRelativeAxis(pos[1], rel[1], new[1]),
       MoveRelativeAxis(pos[2], rel[2], new[2]) >>

\* surface_resize(surface, w, h) raises ValueError for a negative dimension.
SurfaceResizeOk(w, h) == ~(w < 0 \/ h < 0)

CellBound == Rect(0, 0, MaxPos + 2, MaxPos + 1)

CellSizes == { <<1, 1>>, <<2, 1>>, <<2, 2>> }

CellVelArgs == { <<0, 0>>, <<1, 0>>, <<-1, 1>> }

CellMoveArgs == { <<1, 0>>, <<0, 1>>, <<-1, -1>> }

ItemSizes == { <<1, 1>> }

Anchors == { "center", "topleft" }

MoveAtArgs == (0 .. MaxPos) \X (0 .. MaxPos)

InWindow(r) == r.x \in 0 .. MaxPos /\ r.y \in 0 .. MaxPos

\* The methods of Cell, as functions of the cell's state: the new rect, the
\* item's rect when the final update_item began (pre), and the item's rect.
CellMoveStale(c, has, it, ri, x, y) ==
    [rect |-> RectMove(c, x, y), pre |-> it, item |-> it]

CellMove(c, has, it, ri, x, y) ==
    LET r == RectMove(c, x, y)
    IN  [rect |-> r, pre |-> it, item |-> UpdateItem(has, it, r, ri)]

CellMoveAt(c, has, it, ri, pos, anchor) ==
    LET r == SetAttr(c, anchor, pos)
    IN  [rect |-> r, pre |-> it, item |-> UpdateItem(has, it, r, ri)]

CellResize(c, has, it, ri, w, h, update) ==
    LET r == [c EXCEPT !.w = w, !.h = h]
    IN  [rect |-> r, pre |-> it,
         item |-> IF update THEN UpdateItem(has, it, r, ri) ELSE it]

\* Cell.move_bouncing: GenericGameObject.move_bouncing runs on the cell's
\* rect, or on its urect when union is set; its move is Cell.move, which
\* updates the item once before the clamp.
CellMoveBouncing(c, has, it, ri, x, y, union) ==
    LET u == URect(has, it, c)
        start == IF union THEN u ELSE c
        moved == CellMove(start, has, it, ri, x, y)
        clamped == RectClamp(moved.rect, CellBound)
        newtl == MoveRelativeTo(GetAttr(c, "topleft"), GetAttr(u, "topleft"),
                                GetAttr(clamped, "topleft"))
        final == IF union THEN SetAttr(c, "topleft", newtl) ELSE clamped
    IN  [rect |-> final, pre |-> moved.item,
         item |-> UpdateItem(has, moved.item, final, ri),
         vel |-> NewVelocity(start, CellBound, x, y)]

\* A call's effect on the state.  res.pre is the item's rect as the call's
\* final update_item found it (as the call found it, when none ran).
CellStep(res, has, ri, op, upd) ==
    /\ cellRect' = res.rect
    /\ hasItem' = has
    /\ rules' = ri
    /\ item' = res.item
    /\ itemFresh' = (res.item = UpdateItem(has, res.pre, res.rect, ri))
    /\ cellOp' = op
    /\ cellUpd' = upd
    /\ UNCHANGED notCell

cell_add_item ==
    \E sz \in ItemSizes, ri \in 1 .. Len(RuleSets) :
        LET it == Rect(0, 0, sz[1], sz[2])
        IN  /\ CellStep([rect |-> cellRect, pre |-> it,
                         item |-> UpdateItem(TRUE, it, cellRect, ri)],
                        TRUE, ri, "add_item", TRUE)
            /\ UNCHANGED cellVel

cell_move ==
    \E d \in CellMoveArgs :
        /\ InWindow(RectMove(cellRect, d[1], d[2]))
        /\ CellStep(CellMove(cellRect, hasItem, item, rules, d[1], d[2]),
                    hasItem, rules, "move", TRUE)
        /\ UNCHANGED cellVel

cell_move_at ==
    \E pos \in MoveAtArgs, anchor \in Anchors :
        /\ InWindow(SetAttr(cellRect, anchor, pos))
        /\ CellStep(CellMoveAt(cellRect, hasItem, item, rules, pos, anchor),
                    hasItem, rules, "move_at", TRUE)
        /\ UNCHANGED cellVel

cell_resize ==
    \E sz \in CellSizes, update \in BOOLEAN :
        /\ SurfaceResizeOk(sz[1], sz[2])
        /\ CellStep(CellResize(cellRect, hasItem, item, rules,
                               sz[1], sz[2], update),
                    hasItem, rules, "resize", update)
        /\ UNCHANGED cellVel

cell_move_bouncing ==
    \E hasV \in BOOLEAN, v \in CellVelArgs, union \in BOOLEAN :
        LET x == IF hasV THEN v[1] ELSE cellVel[1]
            y == IF hasV THEN v[2] ELSE cellVel[2]
            res == CellMoveBouncing(cellRect, hasItem, item, rules, x, y, union)
        IN  /\ hasV \/ v = <<0, 0>>
            /\ cellVel' = res.vel
            /\ CellStep(res, hasItem, rules, "move_bouncing", TRUE)

CellInit ==
    /\ cellRect \in { Rect(0, 0, sz[1], sz[2]) : sz \in CellSizes }
    /\ cellVel = DefaultVelocity
    /\ hasItem = FALSE
    /\ item = Rect(0, 0, 0, 0)
    /\ itemFresh = TRUE
    /\ rules = 1
    /\ cellOp = "init"
    /\ cellUpd = TRUE

CellNext ==
    \/ cell_add_item
    \/ cell_move
    \/ cell_move_at
    \/ cell_resize
    \/ cell_move_bouncing

InitCell == CellInit /\ BounceIdle /\ GridIdle /\ ShapeIdle /\ TableIdle /\ CallIdle /\ StartIdle /\ ActionsIdle /\ CompareIdle /\ RegistryIdle

SpecCell == InitCell /\ [][CellNext]_vars

CellMovers == { "move", "move_at", "resize", "move_bouncing" }

\* C1 (as stated): with an item bound, after every call of Cell.move,
\* Cell.move_at, Cell.resize or Cell.move_bouncing the item's rect is the one
\* update_item computes from the cell's current rule set and current rect.
C1_ItemFreshAsStated == (hasItem /\ cellOp \in CellMovers) => itemFresh

\* C1 (amended): with an item bound, after every call of Cell.move,
\* Cell.move_at, Cell.move_bouncing, or Cell.resize with update left true, the
\* item's rect is the one update_item computes from the cell's current rule
\* set and current rect.
C1_ItemFresh ==
    (hasItem /\ cellOp \in CellMovers /\ ~(cellOp = "resize" /\ ~cellUpd))
        => itemFresh

\* A cell whose item follows its center has bounced off the origin with its
\* item and bounding box, and the item's center is the cell's new center.
C1_Witness ==
    /\ hasItem /\ cellOp = "move_bouncing" /\ rules = 1
    /\ cellRect.x > 0 /\ cellRect.y > 0
    /\ GetAttr(item, "center") = GetAttr(cellRect, "center")

(***************************************************************************)
(* Grid: rows x columns of cell objects laid out from the grid's topleft.  *)
(***************************************************************************)
\* Grid.update() from the k-th cell (row-major) on: the cell is put at tl,
\* the next one goes to its topright, a new row starts at the bottomleft of
\* the row's first cell, and the grid's rect is united with every cell.
RECURSIVE UpdateFrom(_, _, _, _, _, _)
UpdateFrom(k, tl, grect, cells, rows, cols) ==
    IF k >= rows * cols THEN [rect |-> grect, cells |-> cells]
    ELSE LET r == k \div cols
             c == k % cols
             placed == SetAttr(cells[<<r, c>>].rect, "topleft", tl)
             cells2 == [cells EXCEPT ![<<r, c>>].rect = placed]
             next == IF c = cols - 1
                     THEN GetAttr(cells2[<<r, 0>>].rect, "bottomleft")
                     ELSE GetAttr(placed, "topright")
         IN  UpdateFrom(k + 1, next, RectUnion(grect, placed), cells2, rows, cols)

GridUpdateFromRight(grect, cells, rows, cols) ==
    UpdateFrom(0, GetAttr(grect, "topright"), grect, cells, rows, cols)

GridUpdate(grect, cells, rows, cols) ==
    UpdateFrom(0, GetAttr(grect, "topleft"), grect, cells, rows, cols)

GridDims == { <<1, 2>>, <<2, 1>>, <<2, 2>> }

BuildSizes == { <<1, 1>>, <<2, 1>>, <<0, 1>> }

GridWindow == 0 .. 1

GridMoveArgs == { <<1, 0>>, <<0, 1>>, <<-1, -1>> }

Perms(S) == { f \in [S -> S] : \A y \in S : \E x \in S : f[x] = y }

DealtNone(grid, ps, perm) == grid

\* shuffle(): every position of ps gets, by self[pos] = cells.pop(), the
\* value of another one, as random.shuffle ordered them; other keys stay.
Dealt(grid, ps, perm) ==
    [k \in DOMAIN grid |-> IF k \in ps THEN grid[perm[k]] ELSE grid[k]]

GridStep(res, rows, cols, op) ==
    /\ gridRect' = res.rect
    /\ gCells' = res.cells
    /\ gRow' = rows
    /\ gCol' = cols
    /\ gridOp' = op
    /\ UNCHANGED notGrid

\* build(rows, columns, cell_size): new cell objects, each at (0, 0) and
\* resized to cell_size, then update(); the grid's rect is not reset.
grid_build ==
    \E d \in GridDims, cs \in BuildSizes :
        LET rows == d[1]
            cols == d[2]
            w == cs[1]
            h == cs[2]
            fresh == [p \in Positions(rows, cols) |->
                        [id |-> p[1] * cols + p[2] + 1, rect |-> Rect(0, 0, w, h)]]
        IN  /\ SurfaceResizeOk(w, h)
            /\ GridStep(GridUpdate(gridRect, fresh, rows, cols),
                        rows, cols, "build")

grid_update ==
    GridStep(GridUpdate(gridRect, gCells, gRow, gCol), gRow, gCol, "update")

grid_move ==
    \E d \in GridMoveArgs :
        LET r == RectMove(gridRect, d[1], d[2])
        IN  /\ r.x \in GridWindow /\ r.y \in GridWindow
            /\ GridStep(GridUpdate(r, gCells, gRow, gCol), gRow, gCol, "move")

grid_move_at ==
    \E px \in GridWindow, py \in GridWindow :
        GridStep(GridUpdate(SetAttr(gridRect, "topleft", <<px, py>>),
                            gCells, gRow, gCol), gRow, gCol, "move_at")

ResizeCellsNot(cells, w, h) == cells

\* Every cell resized to (w, h): resize keeps the cell's topleft.
ResizeCells(cells, w, h) ==
    [p \in DOMAIN cells |-> [cells[p] EXCEPT !.rect.w = w, !.rect.h = h]]

\* Grid.resize(w, h) on a built grid: the rect's size is assigned first,
\* then every cell is resized to (w / cols, h / rows) and update() lays
\* them out; the first cell's resize raises for a negative dimension.
GridResize(grect, cells, rows, cols, w, h) ==
    LET r == SetAttr(grect, "size", <<w, h>>)
        cw == w \div cols
        ch == h \div rows
        u == GridUpdate(r, ResizeCells(cells, cw, ch), rows, cols)
    IN  IF SurfaceResizeOk(cw, ch)
        THEN [rect |-> u.rect, cells |-> u.cells, err |-> FALSE]
        ELSE [rect |-> r, cells |-> cells, err |-> TRUE]

\* resize(w, h): the rect's size is assigned first; on a grid that was never
\* built the division by _col then raises ZeroDivisionError.
grid_resize ==
    \E w \in 0 .. MaxGSize, h \in 0 .. MaxGSize :
        IF gCol = 0 \/ gRow = 0
        THEN GridStep([rect |-> SetAttr(gridRect, "size", <<w, h>>),
                       cells |-> gCells], gRow, gCol, "resize")
        ELSE GridStep(GridResize(gridRect, gCells, gRow, gCol, w, h),
                      gRow, gCol, "resize")

\* Grid.shuffle() when random.shuffle orders the cells by perm: the cell
\* objects are dealt to the positions, then update() lays them out.
GridShuffled(grect, cells, rows, cols, perm) ==
    GridUpdate(grect, Dealt(cells, Positions(rows, cols), perm), rows, cols)

\* shuffle(): the cell objects are dealt to the positions in a random order.
grid_shuffle ==
    \E perm \in Perms(Positions(gRow, gCol)) :
        GridStep(GridShuffled(gridRect, gCells, gRow, gCol, perm),
                 gRow, gCol, "shuffle")

GridNext ==
    \/ grid_build
    \/ grid_update
    \/ grid_move
    \/ grid_move_at
    \/ grid_resize
    \/ grid_shuffle

InitGrid == GridIdle /\ BounceIdle /\ CellIdle /\ ShapeIdle /\ TableIdle /\ CallIdle /\ StartIdle /\ ActionsIdle /\ CompareIdle /\ RegistryIdle

SpecGrid == InitGrid /\ [][GridNext]_vars

GridOps == { "build", "update", "resize", "move", "move_at", "shuffle" }

\* C4: after any build, update, resize, move, move_at or shuffle on a
\* rows x cols grid, the cell at (r, c) has size (cw, ch) and topleft
\* grid.topleft + (c * cw, r * ch), where cw = grid.width // cols and
\* ch = grid.height // rows.
C4_CellLayout ==
    (gridOp \in GridOps /\ gRow > 0 /\ gCol > 0) =>
        LET cw == gridRect.w \div gCol
            ch == gridRect.h \div gRow
        IN  \A p \in Positions(gRow, gCol) :
                gCells[p].rect =
                    Rect(gridRect.x + p[2] * cw, gridRect.y + p[1] * ch, cw, ch)

\* C5: after update(), a second update() leaves the grid's rect and every
\* cell's rect as the first one left them.
C5_UpdateTwice ==
    (gridOp = "update") =>
        GridUpdate(gridRect, gCells, gRow, gCol) =
            [rect |-> gridRect, cells |-> gCells]

\* update() has run on a 2 x 2 grid of 1 x 1 cells moved to (1, 1).
C5_Witness ==
    /\ gridOp = "update" /\ gRow = 2 /\ gCol = 2
    /\ gridRect = Rect(1, 1, 2, 2)
    /\ gCells[<<1, 1>>].rect = Rect(2, 2, 1, 1)

(***************************************************************************)
(* Shape (baseObjects) and GenericGameObject (gameObjects): a rect and a   *)
(* surface that resize and fit change together.                            *)
(***************************************************************************)
ShapeKinds == { "Shape", "GenericGameObject" }

\* const.SHAPE_RECT_ATTRS holds size, w and h; width and height are not in it.
ShapeSizeAttrs == { "size", "w", "h" }

SizeAttrs == { "size", "w", "h", "width", "height" }

Targets == { Rect(1, 1, 2, 1), Rect(0, 1, 1, 2) }

ShapeMoveArgs == { <<1, 0>>, <<0, 1>>, <<-1, -1>> }

ShapeWindow == 0 .. 1

ShapeStep(r, surf, op, args, err, target) ==
    /\ shRect' = r
    /\ shSurf' = surf
    /\ shOp' = op
    /\ shArgs' = args
    /\ shErr' = err
    /\ shTarget' = target
    /\ UNCHANGED <<shKind, notShape>>

\* resize(w, h): surface_resize raises before anything is assigned; else the
\* surface is rescaled and the rect's size is set to (w, h).
shape_resize ==
    \E w \in (-1) .. MaxSize, h \in (-1) .. MaxSize :
        IF SurfaceResizeOk(w, h)
        THEN ShapeStep(SetAttr(shRect, "size", <<w, h>>), <<w, h>>,
                       "resize", <<w, h>>, FALSE, NoTarget)
        ELSE ShapeStep(shRect, shSurf, "resize", <<w, h>>, TRUE, NoTarget)

\* Shape.fit(t): the rect becomes rect.fit(t) and the surface gets its size.
\* GenericGameObject.fit(t): resize(*rect.fit(t).size).
shape_fit ==
    \E t \in Targets :
        /\ shRect.w > 0 /\ shRect.h > 0
        /\ LET f == RectFit(shRect, t)
               r == IF shKind = "Shape" THEN f
                    ELSE SetAttr(shRect, "size", <<f.w, f.h>>)
           IN  /\ SurfaceResizeOk(f.w, f.h)
               /\ ShapeStep(r, <<f.w, f.h>>, "fit", <<0, 0>>, FALSE, t)

shape_move ==
    \E d \in ShapeMoveArgs :
        LET r == RectMove(shRect, d[1], d[2])
        IN  /\ r.x \in ShapeWindow /\ r.y \in ShapeWindow
            /\ ShapeStep(r, shSurf, "move", <<0, 0>>, FALSE, NoTarget)

shape_clamp ==
    \E t \in Targets :
        ShapeStep(RectClamp(shRect, t), shSurf, "clamp", <<0, 0>>, FALSE, t)

\* Assignment to a size attribute.  Shape: the ShapeMeta property of an
\* attribute in SHAPE_RECT_ATTRS sets it on _rect; any other name becomes a
\* plain instance attribute.  GenericGameObject: set_rect_attrs sets it on
\* the rect.
shape_set_attr ==
    \E a \in SizeAttrs, v \in 0 .. MaxSize :
        LET val == IF a = "size" THEN <<v, v>> ELSE v
            r == IF shKind = "Shape" /\ a \notin ShapeSizeAttrs THEN shRect
                 ELSE SetAttr(shRect, a, val)
        IN  ShapeStep(r, shSurf, "set_attr", <<0, 0>>, FALSE, NoTarget)

\* GenericGameObject's size property: obj.size = (w, h) calls resize(w, h).
shape_set_size ==
    \E w \in 0 .. MaxSize, h \in 0 .. MaxSize :
        /\ shKind = "GenericGameObject"
        /\ SurfaceResizeOk(w, h)
        /\ ShapeStep(SetAttr(shRect, "size", <<w, h>>), <<w, h>>,
                     "set_size", <<0, 0>>, FALSE, NoTarget)

ShapeInit ==
    /\ shKind \in ShapeKinds
    /\ \E w \in 0 .. MaxSize, h \in 0 .. MaxSize :
          /\ shRect = Rect(0, 0, w, h)
          /\ shSurf = <<w, h>>
    /\ shOp = "init"
    /\ shArgs = <<0, 0>>
    /\ shErr = FALSE
    /\ shTarget = NoTarget

ShapeNext ==
    \/ shape_resize
    \/ shape_fit
    \/ shape_move
    \/ shape_clamp
    \/ shape_set_attr
    \/ shape_set_size

InitShape == ShapeInit /\ BounceIdle /\ CellIdle /\ GridIdle /\ TableIdle /\ CallIdle /\ StartIdle /\ ActionsIdle /\ CompareIdle /\ RegistryIdle

SpecShape == InitShape /\ [][ShapeNext]_vars

\* C6: after any sequence of resize, fit, move, clamp and assignments to the
\* exposed size attributes, the rect's size equals the surface's size.
C6_RectIsBuffer == GetAttr(shRect, "size") = shSurf

\* C7: resize(w, h) with w <= 0 or h <= 0 raises an error, for zero as for
\* negative values, so that no call sets a rect or a surface to such a size.
C7_ResizeRejects ==
    (shOp = "resize" /\ (shArgs[1] <= 0 \/ shArgs[2] <= 0)) => shErr

\* The sides of the new size are in the old size's proportion, to within the
\* one unit that truncation to integers takes.
AspectKept(old, new) ==
    /\ new.h * old.w < (new.w + 1) * old.h
    /\ new.w * old.h < (new.h + 1) * old.w

\* C8: after obj.fit(target), for a target of positive size at any position,
\* target.contains(obj.rect) holds and the aspect ratio is preserved within
\* integer rounding, for Shape and GenericGameObject alike.
C8_FitInside ==
    [][ (shOp' = "fit") =>
            /\ RectContains(shTarget', shRect')
            /\ AspectKept(shRect, shRect') ]_vars

(***************************************************************************)
(* Table (gameUtils): rows x columns of values kept in a dict keyed by     *)
(* (row, col).  Values are tuples, so that a value can be compared with a  *)
(* position as the constructor does.                                       *)
(***************************************************************************)
Values == { <<0>>, <<1>>, <<0, 1>> }

Empties == { <<0>>, <<0, 1>> }

TableDims == { <<1, 2>>, <<2, 2>> }

\* The keys item assignment is tried with: the positions of the largest
\* table and one key outside every table.
KeyArgs == Positions(2, 2) \cup { <<0, 2>> }

SeqArgs == UNION { [1 .. n -> Values] : n \in 0 .. MaxSeq }

\* iter_pos() as a list: the positions in row-major order.
IterPos(rows, cols) ==
    [k \in 1 .. rows * cols |-> <<(k - 1) \div cols, (k - 1) % cols>>]

\* itertools.izip_longest(ps, seq, fillvalue=fill)
IzipLongest(ps, seq, fill) ==
    [k \in 1 .. Max(Len(ps), Len(seq)) |->
        << IF k <= Len(ps) THEN ps[k] ELSE fill,
           IF k <= Len(seq) THEN seq[k] ELSE fill >>]

\* itertools.takewhile(lambda args: args[0] != empty, pairs)
RECURSIVE TakeWhileValue(_, _)
TakeWhileValue(pairs, empty) ==
    IF pairs = << >> \/ Head(pairs)[2] = empty THEN << >>
    ELSE << Head(pairs) >> \o TakeWhileValue(Tail(pairs), empty)

RECURSIVE TakeWhile(_, _)
TakeWhile(pairs, empty) ==
    IF pairs = << >> \/ Head(pairs)[1] = empty THEN << >>
    ELSE << Head(pairs) >> \o TakeWhile(Tail(pairs), empty)

\* dict(pairs): a later pair replaces an earlier one with the same key.
Dict(pairs) ==
    [key \in { pairs[k][1] : k \in DOMAIN pairs } |->
        LET last == CHOOSE k \in DOMAIN pairs :
                        /\ pairs[k][1] = key
                        /\ \A j \in DOMAIN pairs : pairs[j][1] = key => j <= k
        IN  pairs[last][2]]

\* Table.__init__(rows, columns, empty, seq): the _grid it builds.
TableNew(rows, cols, empty, seq) ==
    Dict(TakeWhile(IzipLongest(IterPos(rows, cols), seq, empty), empty))

\* __setitem__: the key is set, whatever it is.
SetItem(grid, key, value) ==
    [k \in DOMAIN grid \cup {key} |-> IF k = key THEN value ELSE grid[k]]

\* rows, columns and iteration read every position, and raise KeyError when
\* one is missing.
Complete(grid, rows, cols) == Positions(rows, cols) \subseteq DOMAIN grid

TableStep(rows, cols, grid, seq, op) ==
    /\ tRow' = rows
    /\ tCol' = cols
    /\ tGrid' = grid
    /\ tSeq' = seq
    /\ tOp' = op
    /\ UNCHANGED <<tEmpty, notTable>>

table_setitem ==
    \E key \in KeyArgs, v \in Values :
        TableStep(tRow, tCol, SetItem(tGrid, key, v), << >>, "setitem")

\* shuffle(): the values of the positions, dealt back in a random order.
table_shuffle ==
    \E perm \in Perms(Positions(tRow, tCol)) :
        /\ Complete(tGrid, tRow, tCol)
        /\ TableStep(tRow, tCol, Dealt(tGrid, Positions(tRow, tCol), perm),
                     << >>, "shuffle")

\* reflected_h(): a new table from the rows, each reversed.
table_reflected_h ==
    LET seq == [k \in 1 .. tRow * tCol |->
                   tGrid[<<(k - 1) \div tCol, tCol - 1 - ((k - 1) % tCol)>>]]
    IN  /\ Complete(tGrid, tRow, tCol)
        /\ TableStep(tRow, tCol, TableNew(tRow, tCol, tEmpty, seq), seq,
                     "reflected_h")

\* reflected_v(): a new table from the rows in reverse order.
table_reflected_v ==
    LET seq == [k \in 1 .. tRow * tCol |->
                   tGrid[<<tRow - 1 - ((k - 1) \div tCol), (k - 1) % tCol>>]]
    IN  /\ Complete(tGrid, tRow, tCol)
        /\ TableStep(tRow, tCol, TableNew(tRow, tCol, tEmpty, seq), seq,
                     "reflected_v")

\* The seq rotated() builds: the columns of the table, each read bottom-up.
RotatedSeq(rows, cols, grid) ==
    [k \in 1 .. rows * cols |->
        grid[<<rows - 1 - ((k - 1) % rows), (k - 1) \div rows>>]]

\* rotated() as a function of a table t = [row, col, grid, ok]: reading the
\* rows of a table that lacks a position raises KeyError (ok = FALSE).
Rotated(t, empty) ==
    IF ~t.ok \/ ~Complete(t.grid, t.row, t.col)
    THEN [t EXCEPT !.ok = FALSE]
    ELSE [row |-> t.col, col |-> t.row, ok |-> TRUE,
          grid |-> TableNew(t.col, t.row, empty,
                            RotatedSeq(t.row, t.col, t.grid))]

\* rotated(): a new columns x rows table from the columns, each reversed.
table_rotated ==
    LET seq == RotatedSeq(tRow, tCol, tGrid)
    IN  /\ Complete(tGrid, tRow, tCol)
        /\ TableStep(tCol, tRow, TableNew(tCol, tRow, tEmpty, seq), seq,
                     "rotated")

TableInit ==
    /\ \E d \in TableDims : tRow = d[1] /\ tCol = d[2]
    /\ tEmpty \in Empties
    /\ tSeq \in SeqArgs
    /\ tGrid = TableNew(tRow, tCol, tEmpty, tSeq)
    /\ tOp = "new"

TableNext ==
    \/ table_setitem
    \/ table_shuffle
    \/ table_reflected_h
    \/ table_reflected_v
    \/ table_rotated

InitTable == TableInit /\ BounceIdle /\ CellIdle /\ GridIdle /\ ShapeIdle /\ CallIdle /\ StartIdle /\ ActionsIdle /\ CompareIdle /\ RegistryIdle

SpecTable == InitTable /\ [][TableNext]_vars

\* The tables that come straight from the constructor, with the seq it got.
Constructed == { "new", "reflected_h", "reflected_v", "rotated" }

\* The number of elements of seq before the first one equal to empty.
RECURSIVE BeforeEmpty(_, _)
BeforeEmpty(seq, empty) ==
    IF seq = << >> \/ Head(seq) = empty THEN 0
    ELSE 1 + BeforeEmpty(Tail(seq), empty)

\* C9 (as stated): Table(rows, cols, empty, seq) fills the positions in
\* row-major order from seq and stops at the first of: seq exhausted, or an
\* element equal to empty; every position from there on holds empty.
C9_FillAsStated ==
    (tOp \in Constructed) =>
        LET stop == BeforeEmpty(tSeq, tEmpty)
            ps == IterPos(tRow, tCol)
        IN  \A k \in DOMAIN ps :
                /\ ps[k] \in DOMAIN tGrid
                /\ tGrid[ps[k]] = IF k <= stop THEN tSeq[k] ELSE tEmpty

\* C9 (amended): for an empty value that is not itself a position of the
\* table, Table(rows, cols, empty, seq) fills the positions in row-major
\* order from seq and stops at the first of: seq exhausted, or the table
\* full; an element equal to empty is stored like any other; every position
\* after the end of seq holds empty.
C9_Fill ==
    (tOp \in Constructed /\ tEmpty \notin Positions(tRow, tCol)) =>
        LET ps == IterPos(tRow, tCol)
        IN  \A k \in DOMAIN ps :
                /\ ps[k] \in DOMAIN tGrid
                /\ tGrid[ps[k]] = IF k <= Len(tSeq) THEN tSeq[k] ELSE tEmpty

\* A 2 x 2 table built from a seq of three whose second element is the empty
\* value: the third element is stored, the fourth position holds empty.
C9_Witness ==
    /\ tOp = "new" /\ tRow = 2 /\ tCol = 2 /\ tEmpty = <<0>>
    /\ tSeq = << <<1>>, <<0>>, <<1>> >>
    /\ DOMAIN tGrid = Positions(2, 2)
    /\ tGrid[<<0, 1>>] = <<0>> /\ tGrid[<<1, 0>>] = <<1>>
    /\ tGrid[<<1, 1>>] = <<0>>

\* C10: after construction and any item assignments, shuffles and transforms,
\* the table holds one entry for every position in [0, rows) x [0, cols) and
\* no other: its length is rows * cols and a key outside raises KeyError.
C10_ExactKeys ==
    /\ DOMAIN tGrid = Positions(tRow, tCol)
    /\ Cardinality(DOMAIN tGrid) = tRow * tCol

\* C11: for any rows x cols table, square or not, full or partly empty,
\* rotated() applied four times yields a table of the same size that holds
\* the same value at every (row, col) as the original.
C11_RotatedFour ==
    LET t == [row |-> tRow, col |-> tCol, ok |-> TRUE, grid |-> tGrid]
        r == Rotated(Rotated(Rotated(Rotated(t, tEmpty), tEmpty), tEmpty),
                     tEmpty)
    IN  /\ r.ok
        /\ r.row = tRow /\ r.col = tCol
        /\ \A p \in Positions(tRow, tCol) :
               p \in DOMAIN tGrid /\ p \in DOMAIN r.grid
               /\ r.grid[p] = tGrid[p]

(***************************************************************************)
(* Table.diagonal (specification SpecDiagonal)                             *)
(***************************************************************************)
DiagArgs == (-1 .. 2) \X (-1 .. 2) \X BOOLEAN

\* diagonal(row, col, topright): the values at the positions
\* zip(range(row, rows), range(col, endcol, stepcol)); self[pos] raises
\* KeyError at a position the table does not hold.
Diagonal(grid, rows, cols, row, col, topright) ==
    LET n1 == Max(0, rows - row)
        n2 == IF topright THEN Max(0, col + 1) ELSE Max(0, cols - col)
        n == Min(n1, n2)
        pos(k) == <<row + (k - 1),
                    IF topright THEN col - (k - 1) ELSE col + (k - 1)>>
    IN  IF \E k \in 1 .. n : pos(k) \notin DOMAIN grid
        THEN [err |-> TRUE, val |-> << >>]
        ELSE [err |-> FALSE, val |-> [k \in 1 .. n |-> grid[pos(k)]]]

table_diagonal ==
    \E a \in DiagArgs :
        /\ callOp' = "diagonal"
        /\ callArgs' = a
        /\ callRet' = Diagonal(tGrid, tRow, tCol, a[1], a[2], a[3])
        /\ UNCHANGED notCall

SpecDiagonal == InitTable /\ [][table_diagonal]_vars

\* C12: diagonal(row, col, topright) returns the values at (row + k, col + k),
\* or (row + k, col - k) when topright is set, for k = 0, 1, ... while both
\* indices stay inside the table, and raises KeyError whenever the starting
\* (row, col) is outside [0, rows) x [0, cols).
C12_Diagonal ==
    (callOp = "diagonal") =>
        LET row == callArgs[1]
            col == callArgs[2]
            n == IF callArgs[3] THEN Min(tRow - row, col + 1)
                 ELSE Min(tRow - row, tCol - col)
            at(k) == <<row + k, IF callArgs[3] THEN col - k ELSE col + k>>
        IN  IF <<row, col>> \in Positions(tRow, tCol)
            THEN /\ ~callRet.err
                 /\ callRet.val = [k \in 1 .. n |-> tGrid[at(k - 1)]]
            ELSE callRet.err

(***************************************************************************)
(* shuffle() of a Table and of a Grid (specification SpecShuffle): the     *)
(* container is a table as the constructor left it, or it is a grid.       *)
(***************************************************************************)
InitShuffle ==
    /\ (TableInit \/ TableIdle)
    /\ GridIdle /\ BounceIdle /\ CellIdle /\ ShapeIdle /\ CallIdle /\ StartIdle /\ ActionsIdle /\ CompareIdle /\ RegistryIdle

SpecShuffle ==
    /\ InitShuffle
    /\ [][ \/ tOp # "none" /\ table_shuffle
           \/ tOp = "none" /\ grid_build
           \/ tOp = "none" /\ grid_shuffle
       ]_vars

\* f and g have the same keys and hold every value the same number of times.
SameValues(f, g) ==
    /\ DOMAIN f = DOMAIN g
    /\ \A k \in DOMAIN f :
          Cardinality({ j \in DOMAIN f : f[j] = f[k] })
              = Cardinality({ j \in DOMAIN g : g[j] = f[k] })

\* The cell objects of a grid, without their rects.
Ids(cells) == [p \in DOMAIN cells |-> cells[p].id]

\* C13: shuffle() on a Table or a Grid stores a permutation of the values it
\* held: no shuffle changes the multiset of values or the set of positions,
\* and for every permutation of all the positions (not only within a row or
\* a column) some shuffle moves the values by it. (A table that lacks a
\* position raises KeyError before it stores anything.)
C13_Shuffle ==
    /\ ~ENABLED (table_shuffle /\ ~SameValues(tGrid, tGrid'))
    /\ Complete(tGrid, tRow, tCol) =>
          \A perm \in Perms(Positions(tRow, tCol)) :
              ENABLED (table_shuffle
                       /\ \A p \in Positions(tRow, tCol) :
                              tGrid'[p] = tGrid[perm[p]])
    /\ \A perm \in Perms(Positions(gRow, gCol)) :
          /\ SameValues(Ids(gCells),
                        Ids(GridShuffled(gridRect, gCells, gRow, gCol,
                                         perm).cells))
          /\ \E q \in Perms(Positions(gRow, gCol)) :
                \A p \in Positions(gRow, gCol) :
                    GridShuffled(gridRect, gCells, gRow, gCol, q).cells[p].id
                        = gCells[perm[p]].id

\* A 2 x 2 table after a shuffle, with its two non-empty values in the second
\* row: the constructor puts the first of them in the first row.
C13_Witness ==
    /\ tOp = "shuffle" /\ tRow = 2 /\ tCol = 2 /\ tEmpty = <<0>>
    /\ tGrid[<<0, 0>>] = <<0>> /\ tGrid[<<0, 1>>] = <<0>>
    /\ tGrid[<<1, 0>>] = <<1>> /\ tGrid[<<1, 1>>] = <<1>>

(***************************************************************************)
(* The methods a Cell inherits from GenericGameObject that move or resize  *)
(* its rect (specification SpecCellRect).                                  *)
(***************************************************************************)
\* A range element of move_random: << >> for None, <<n>> for the integer n.
None == << >>

\* sorted(pair) of Python 2: None sorts before every integer.
Sorted(r) ==
    IF r[2] = None \/ (r[1] # None /\ r[2][1] < r[1][1]) THEN <<r[2], r[1]>>
    ELSE r

\* GenericGameObject.move_random: the arguments of random.randint for one
\* axis, from the range given and the size of in_rect on that axis.
RandLo(r) == IF Sorted(r)[1] = None THEN 0 ELSE Sorted(r)[1][1]

RandHi(r, size) == IF Sorted(r)[2] = None THEN size ELSE Sorted(r)[2][1]

ClampArgs == { Rect(1, 1, 2, 2) }

RectAttrArgs == { <<"topleft", <<1, 1>>>>, <<"w", 2>> }

RandArgs == { <<None, None>>, << <<1>>, <<-1>> >>, << <<-1>>, <<1>> >> }

Angles == { 0, 90 }

\* The result of an inherited method: the item is not touched.
Inherited(r, it) == [rect |-> r, pre |-> it, item |-> it]

\* clamp(rect): self.rect = self.rect.clamp(rect)
cell_clamp ==
    \E b \in ClampArgs :
        /\ CellStep(Inherited(RectClamp(cellRect, b), item),
                    hasItem, rules, "clamp", TRUE)
        /\ UNCHANGED cellVel

\* goto_start(): setattr(self.rect, self.start_attr, self.start_position)
cell_goto_start ==
    /\ CellStep(Inherited(SetAttr(cellRect, "center", start_position), item),
                hasItem, rules, "goto_start", TRUE)
    /\ UNCHANGED cellVel

\* set_rect_attrs(dict_or_seq), with one (attr, value) pair
cell_set_rect_attrs ==
    \E a \in RectAttrArgs :
        /\ InWindow(SetAttr(cellRect, a[1], a[2]))
        /\ CellStep(Inherited(SetAttr(cellRect, a[1], a[2]), item),
                    hasItem, rules, "set_rect_attrs", TRUE)
        /\ UNCHANGED cellVel

\* rotate(angle): the original surface rotated by a multiple of 90 degrees;
\* the rect is the new surface's, put back at the old center.
cell_rotate ==
    \E angle \in Angles :
        LET size == IF angle = 90
                    THEN <<original_surface[2], original_surface[1]>>
                    ELSE original_surface
            r == SetAttr(Rect(0, 0, size[1], size[2]), "center",
                         GetAttr(cellRect, "center"))
        IN  /\ InWindow(r)
            /\ CellStep(Inherited(r, item), hasItem, rules, "rotate", TRUE)
            /\ UNCHANGED cellVel

\* fit(rect): self.resize(*self.rect.fit(rect).size), which is Cell.resize
cell_fit ==
    \E b \in ClampArgs :
        LET size == GetAttr(RectFit(cellRect, b), "size")
        IN  /\ SurfaceResizeOk(size[1], size[2])
            /\ CellStep(CellResize(cellRect, hasItem, item, rules,
                                   size[1], size[2], TRUE),
                        hasItem, rules, "fit", TRUE)
            /\ UNCHANGED cellVel

\* move_random(in_rect, x, y): self.move by a random offset, which is
\* Cell.move, then self.clamp(in_rect); randint raises for an empty range.
cell_move_random ==
    \E b \in ClampArgs, xr \in RandArgs, yr \in RandArgs :
        \E dx \in RandLo(xr) .. RandHi(xr, b.w),
           dy \in RandLo(yr) .. RandHi(yr, b.h) :
            LET moved == CellMove(cellRect, hasItem, item, rules, dx, dy)
            IN  /\ CellStep([rect |-> RectClamp(moved.rect, b),
                             pre |-> moved.item, item |-> moved.item],
                            hasItem, rules, "move_random", TRUE)
                /\ UNCHANGED cellVel

\* Cell(image, item): the item is bound by the constructor, with the rule
\* set {'center': None}; nothing derives its rect yet.
InitCellRect ==
    /\ cellRect = Rect(0, 0, 2, 1)
    /\ cellVel = DefaultVelocity
    /\ hasItem = TRUE
    /\ item \in { Rect(0, 0, sz[1], sz[2]) : sz \in ItemSizes }
    /\ rules = 1
    /\ itemFresh = (item = UpdateItem(hasItem, item, cellRect, rules))
    /\ cellOp = "init"
    /\ cellUpd = TRUE
    /\ start_position = GetAttr(cellRect, "center")
    /\ original_surface = GetAttr(cellRect, "size")
    /\ BounceIdle /\ GridIdle /\ ShapeIdle /\ TableIdle /\ CallIdle /\ ActionsIdle /\ CompareIdle /\ RegistryIdle

SpecCellRect ==
    /\ InitCellRect
    /\ [][ \/ cell_clamp
           \/ cell_goto_start
           \/ cell_set_rect_attrs
           \/ cell_rotate
           \/ cell_fit
           \/ cell_move_random
       ]_vars

\* C14: with an item bound, every public Cell operation that moves or
\* resizes the cell's rect - clamp, move_random, fit, goto_start, rotate and
\* set_rect_attrs as well as move, move_at, resize and move_bouncing - leaves
\* the item's rect re-derived from the cell's new rect through the rule set.
C14_AlwaysRederived ==
    (hasItem /\ cellOp \in { "clamp", "move_random", "fit", "goto_start",
                             "rotate", "set_rect_attrs", "move", "move_at",
                             "resize", "move_bouncing" })
        => itemFresh

(***************************************************************************)
(* Cell.add_item and Cell.update_item (specification SpecItem)             *)
(***************************************************************************)
\* The attrs argument of add_item when no rule set is given: -1 for a
\* missing one (None), 0 for an empty mapping.
NoAttrs == { -1, 0 }

\* attrs or {'center': None}: RuleSets[1] is the rule set {'center': None}.
AttrsOr(a) == IF a \in NoAttrs THEN 1 ELSE a

\* add_item(item), add_item(item, None), add_item(item, {})
cell_add_item_default ==
    \E sz \in ItemSizes, a \in NoAttrs :
        LET it == Rect(0, 0, sz[1], sz[2])
        IN  /\ CellStep([rect |-> cellRect, pre |-> it,
                         item |-> UpdateItem(TRUE, it, cellRect, AttrsOr(a))],
                        TRUE, AttrsOr(a), "add_item_default", TRUE)
            /\ UNCHANGED cellVel

\* update_item(), called by the user
cell_update_item ==
    /\ CellStep([rect |-> cellRect, pre |-> item,
                 item |-> UpdateItem(hasItem, item, cellRect, rules)],
                hasItem, rules, "update_item", TRUE)
    /\ UNCHANGED cellVel

SpecItem ==
    /\ InitCell
    /\ [][ \/ cell_add_item
           \/ cell_add_item_default
           \/ cell_update_item
           \/ cell_move_at
           \/ cell_resize
       ]_vars

\* The item rect the rules rs give when they are read as: the cell's
\* attribute of the same name (None), the value the callable returns, the
\* cell's attribute the string names, or the value itself.
RECURSIVE AsRules(_, _, _)
AsRules(it, c, rs) ==
    IF rs = << >> THEN it
    ELSE LET r == Head(rs)
             v == CASE r.kind = "same" -> GetAttr(c, r.attr)
                    [] r.kind = "call" -> GetAttr(c, r.ref) - r.val
                    [] r.kind = "ref" -> GetAttr(c, r.ref)
                    [] r.kind = "abs" -> r.val
         IN  AsRules(SetAttr(it, r.attr, v), c, Tail(rs))

\* C15: update_item() sets, for each rule (A, v) in rule-set order,
\* item.rect.A to cell.rect.A when v is None, to v() when v is callable, to
\* cell.rect.<v> when v is a string and to v itself otherwise; add_item with
\* a missing or empty rule set binds the item with the single rule 'center
\* follows the cell's center'; update_item() changes nothing when no item is
\* bound.
C15_UpdateItem ==
    [][ /\ (cellOp' = "update_item" /\ hasItem) =>
               item' = AsRules(item, cellRect, RuleSets[rules])
        /\ (cellOp' = "update_item" /\ ~hasItem) =>
               /\ item' = item /\ cellRect' = cellRect /\ ~hasItem'
        /\ (cellOp' = "add_item") =>
               \E sz \in ItemSizes :
                   item' = AsRules(Rect(0, 0, sz[1], sz[2]), cellRect',
                                   RuleSets[rules'])
        /\ (cellOp' = "add_item_default") =>
               /\ hasItem' /\ RuleSets[rules'] = << Rule("center", "same", "", 0) >>
               /\ GetAttr(item', "center") = GetAttr(cellRect', "center")
      ]_vars

\* update_item() has put the item of a cell that was resized to a height of
\* two, without an update, back to the rule 'top is the cell's bottom'.
C15_Witness ==
    /\ cellOp = "update_item" /\ hasItem /\ rules = 2
    /\ cellRect.h = 2 /\ item.y = cellRect.y + 2

RandVelocities == { <<2, 1>>, <<-1, 2>>, <<0, 0>> }

RandBound == Rect(0, 0, 3, 2)

\* GameObject.move_random: the arguments of random.randint for one axis;
\* an omitted range is (0, velocity component), a given one is used as it is.
GoRand(r, v) == IF r = <<None, None>> THEN <<0, v>> ELSE <<r[1][1], r[2][1]>>

\* What a call leaves in callVars: its arguments, whether it raised, the
\* rect it found and the offset drawn.
RandomStep(op, b, hasB, xr, yr, err, d) ==
    /\ callOp' = op
    /\ callArgs' = [bound |-> b, hasBound |-> hasB, x |-> xr, y |-> yr]
    /\ callRet' = [err |-> err, before |-> obj, d |-> d]
    /\ UNCHANGED <<velocity, used, given, bounced, notBounceCall>>

\* GameObject.move_random(obj, xbound, ybound): random.randint(a, b) raises
\* ValueError when a > b, before anything moves.
go_move_random ==
    \E hasB \in BOOLEAN, xr \in RandArgs, yr \in RandArgs :
        LET x == GoRand(xr, velocity[1])
            y == GoRand(yr, velocity[2])
        IN  IF x[1] > x[2] \/ y[1] > y[2]
            THEN /\ obj' = obj
                 /\ RandomStep("GameObject.move_random", RandBound, hasB,
                               xr, yr, TRUE, <<0, 0>>)
            ELSE \E dx \in x[1] .. x[2], dy \in y[1] .. y[2] :
                    LET moved == RectMove(obj, dx, dy)
                    IN  /\ InWindow(moved)
                        /\ obj' = IF hasB THEN RectClamp(moved, RandBound)
                                  ELSE moved
                        /\ RandomStep("GameObject.move_random", RandBound,
                                      hasB, xr, yr, FALSE, <<dx, dy>>)

\* GenericGameObject.move_random(in_rect, x, y): the ranges are sorted, a
\* missing minimum is 0 and a missing maximum the size of in_rect.
ggo_move_random ==
    \E xr \in RandArgs, yr \in RandArgs :
        IF RandLo(xr) > RandHi(xr, RandBound.w)
               \/ RandLo(yr) > RandHi(yr, RandBound.h)
        THEN /\ obj' = obj
             /\ RandomStep("GenericGameObject.move_random", RandBound, TRUE,
                           xr, yr, TRUE, <<0, 0>>)
        ELSE \E dx \in RandLo(xr) .. RandHi(xr, RandBound.w),
                dy \in RandLo(yr) .. RandHi(yr, RandBound.h) :
                /\ obj' = RectClamp(RectMove(obj, dx, dy), RandBound)
                /\ RandomStep("GenericGameObject.move_random", RandBound,
                              TRUE, xr, yr, FALSE, <<dx, dy>>)

InitRandom ==
    /\ obj = Rect(1, 1, 1, 1)
    /\ velocity \in RandVelocities
    /\ used = <<0, 0>> /\ given = FALSE /\ bounced = FALSE
    /\ CellIdle /\ GridIdle /\ ShapeIdle /\ TableIdle /\ CallIdle /\ StartIdle /\ ActionsIdle /\ CompareIdle /\ RegistryIdle

SpecRandom ==
    /\ InitRandom
    /\ [][ \/ go_move_random
           \/ ggo_move_random
       ]_vars

\* The interval the range r stands for on an axis where the velocity
\* component is v: between the two numbers given, in either order, or
\* between 0 and v when the range is omitted.
StatedRange(r, v) ==
    IF r = <<None, None>> THEN Min(0, v) .. Max(0, v)
    ELSE Min(r[1][1], r[2][1]) .. Max(r[1][1], r[2][1])

\* C17: move_random moves the object by an integer offset (dx, dy) with
\* min(xrange) <= dx <= max(xrange) and min(yrange) <= dy <= max(yrange); a
\* range (a, b) and its swap (b, a) behave identically; an omitted range is
\* the interval between 0 and the object's velocity component on that axis,
\* whatever its sign; the object is then clamped into the bound when one is
\* given.
C17_MoveRandom ==
    (callOp \in { "GameObject.move_random", "GenericGameObject.move_random" })
        => /\ ~callRet.err
           /\ callRet.d[1] \in StatedRange(callArgs.x, velocity[1])
           /\ callRet.d[2] \in StatedRange(callArgs.y, velocity[2])
           /\ LET moved == RectMove(callRet.before, callRet.d[1], callRet.d[2])
              IN  obj = IF callArgs.hasBound
                        THEN RectClamp(moved, callArgs.bound) ELSE moved

(***************************************************************************)
(* Action groups: set_action, raise_actions, del_action_group of           *)
(* GenericGameObject and GameObject (specification SpecActions)            *)
(***************************************************************************)
MaxActions == 2

Groups == { "default", "g" }

\* The entries (callable, args) set_action is given; "boom" raises.
Entries ==
    { [f |-> "move", args |-> <<2, 2>>], [f |-> "move", args |-> <<-2, -2>>],
      [f |-> "boom", args |-> << >>] }

\* self.actions[group] of a defaultdict(list), for reading only.
Registered(acts, g) == IF g \in DOMAIN acts THEN acts[g] ELSE << >>

\* self.actions[group] = lst
WithGroup(acts, g, lst) ==
    [h \in DOMAIN acts \cup {g} |-> IF h = g THEN lst ELSE acts[h]]

SetActionFirst(acts, g, e) == WithGroup(acts, g, <<e>> \o Registered(acts, g))

\* set_action: self.actions[group].append((callable_, args, kwords))
SetAction(acts, g, e) == WithGroup(acts, g, Append(Registered(acts, g), e))

\* The entries raise_actions calls: those up to the first that raises.
RECURSIVE Calls(_)
Calls(lst) ==
    IF lst = << >> THEN << >>
    ELSE IF Head(lst).f = "boom" THEN << Head(lst) >>
    ELSE << Head(lst) >> \o Calls(Tail(lst))

ActionStep(op, g, e, acts, ret) ==
    /\ callOp' = op
    /\ callArgs' = [group |-> g, entry |-> e]
    /\ callRet' = ret
    /\ actions' = acts
    /\ UNCHANGED notActionsCall

NoEntry == [f |-> "", args |-> << >>]

set_action ==
    \E g \in Groups, e \in Entries :
        /\ Len(Registered(actions, g)) < MaxActions
        /\ ActionStep("set_action", g, e, SetAction(actions, g, e),
                      [none |-> TRUE, err |-> FALSE, val |-> << >>])

\* raise_actions(group): `for action in self.actions[group]` reads the
\* defaultdict, which stores an empty list for a group it does not hold.
raise_actions ==
    \E g \in Groups :
        LET lst == Registered(actions, g)
        IN  ActionStep("raise_actions", g, NoEntry,
                       WithGroup(actions, g, lst),
                       [none |-> TRUE,
                        err |-> \E k \in DOMAIN lst : lst[k].f = "boom",
                        val |-> Calls(lst)])

\* del_action_group(group): return self.actions.pop(group, None)
del_action_group ==
    \E g \in Groups :
        ActionStep("del_action_group", g, NoEntry,
                   [h \in DOMAIN actions \ {g} |-> actions[h]],
                   [none |-> g \notin DOMAIN actions, err |-> FALSE,
                    val |-> Registered(actions, g)])

InitActions ==
    /\ ActionsIdle /\ CallIdle
    /\ BounceIdle /\ CellIdle /\ GridIdle /\ ShapeIdle /\ TableIdle /\ StartIdle /\ CompareIdle /\ RegistryIdle

SpecActions ==
    /\ InitActions
    /\ [][ \/ set_action
           \/ raise_actions
           \/ del_action_group
       ]_vars

\* The first n elements of a sequence.
Prefix(s, n) == [k \in 1 .. n |-> s[k]]

\* C18: raise_actions(group) calls exactly the actions registered for that
\* group with set_action (each set_action adds its entry after those
\* registered before it), once each and in registration order, with their
\* stored arguments; it does not remove them, so the next raise_actions
\* finds the same list; if an action raises, the error reaches the caller
\* and the remaining actions of that call are not run.
C18_RaiseActions ==
    [][ /\ (callOp' = "set_action") =>
              Registered(actions', callArgs'.group)
                  = Registered(actions, callArgs'.group)
                        \o << callArgs'.entry >>
        /\ (callOp' = "raise_actions") =>
              LET lst == Registered(actions, callArgs'.group)
                  bad == { k \in DOMAIN lst : lst[k].f = "boom" }
              IN  /\ \A g \in Groups :
                         Registered(actions', g) = Registered(actions, g)
                  /\ callRet'.err = (bad # {})
                  /\ callRet'.val =
                         IF bad = {} THEN lst
                         ELSE Prefix(lst, CHOOSE k \in bad :
                                              \A j \in bad : k <= j)
      ]_vars

\* A raise_actions that ran the two entries of its group, the second of
\* which raised.
C18_Witness ==
    /\ callOp = "raise_actions" /\ callRet.err
    /\ Len(callRet.val) = 2 /\ callRet.val[1].f = "move"
    /\ Registered(actions, callArgs.group) = callRet.val

\* C19: del_action_group(group) removes the group and returns its list of
\* entries in registration order, and returns None whenever no action is
\* registered under that group - none was ever set, or the group was already
\* deleted - whatever raise_actions(group) calls were made in between.
C19_DelActionGroup ==
    [][ (callOp' = "del_action_group") =>
            LET lst == Registered(actions, callArgs'.group)
            IN  /\ callArgs'.group \notin DOMAIN actions'
                /\ callRet'.none = (lst = << >>)
                /\ ~callRet'.none => callRet'.val = lst
      ]_vars

(***************************************************************************)
(* Comparison of game objects: compare_value, __eq__, __ne__ of            *)
(* GenericGameObject and GameObject (specification SpecCompare)            *)
(***************************************************************************)
Objects == { 1, 2 }

\* The values id(self) can take; two live objects never share one.
IdValues == { 101, 102, 103 }

\* The explicit keys given to the constructor and to the setter.
KeyValues == { 1, 2 }

\* The cmp_value argument of the constructor; None is the default.
CmpArgs == { None } \cup { <<k>> : k \in KeyValues }

\* A bare value, or the object with that number.
Bare(n) == [obj |-> FALSE, v |-> n]
Object(j) == [obj |-> TRUE, v |-> j]
Others == { Bare(n) : n \in KeyValues \cup IdValues } \cup { Object(j) : j \in Objects }

\* self._cmp_value = cmp_value if cmp_value is not None else id(self)
InitialKey(arg, id) == IF arg = None THEN id ELSE arg[1]

EqSameObject(cv, i, other) == other.obj /\ other.v = i

\* __eq__: self._cmp_value == other. The key is a plain value; when other is
\* a game object the value's own comparison gives up and Python asks
\* other.__eq__(key), which is other._cmp_value == key.
Eq(cv, i, other) ==
    IF other.obj THEN cv[other.v] = cv[i] ELSE cv[i] = other.v

\* GenericGameObject.__ne__: self._cmp_value != other, and other.__ne__(key)
\* when other is a game object.
Ne(cv, i, other) ==
    IF other.obj THEN cv[other.v] # cv[i] ELSE cv[i] # other.v

CompareStep(op, i, other, cv, ret) ==
    /\ callOp' = op
    /\ callArgs' = [obj |-> i, other |-> other]
    /\ callRet' = ret
    /\ cmp_value' = cv
    /\ UNCHANGED notCompareCall

\* obj == other, the same in both classes
eq ==
    \E i \in Objects, other \in Others :
        CompareStep("eq", i, other, cmp_value, Eq(cmp_value, i, other))

\* obj != other of gameObjects.GenericGameObject
ggo_ne ==
    \E i \in Objects, other \in Others :
        CompareStep("ne", i, other, cmp_value, Ne(cmp_value, i, other))

\* obj != other of baseObjects.GameObject: return not self == other
go_ne ==
    \E i \in Objects, other \in Others :
        CompareStep("ne", i, other, cmp_value, ~Eq(cmp_value, i, other))

\* obj.compare_value = value, value being a key or other.compare_value
compare_value ==
    \E i \in Objects, j \in Objects, k \in KeyValues :
        \E value \in { k, cmp_value[j] } :
            CompareStep("compare_value", i, Bare(value),
                        [cmp_value EXCEPT ![i] = value], None)

\* Two objects are created, each with or without an explicit key.
CompareInit ==
    \E id \in [Objects -> IdValues], arg \in [Objects -> CmpArgs] :
        /\ \A i, j \in Objects : i # j => id[i] # id[j]
        /\ cmp_value = [i \in Objects |-> InitialKey(arg[i], id[i])]

InitCompare ==
    /\ CompareInit /\ CallIdle /\ ActionsIdle
    /\ BounceIdle /\ CellIdle /\ GridIdle /\ ShapeIdle /\ TableIdle /\ StartIdle /\ RegistryIdle

SpecCompare ==
    /\ InitCompare
    /\ [][ \/ eq
           \/ ggo_ne
           \/ go_ne
           \/ compare_value
       ]_vars

\* The value other is compared by: itself, or its key if it is an object.
KeyOf(cv, other) == IF other.obj THEN cv[other.v] ELSE other.v

\* C20: obj == other is true exactly when obj's comparison key equals other,
\* other being a bare value or another game object (then compared through
\* its own key); obj != other is the negation of obj == other; two distinct
\* objects created without an explicit key are not equal; and after
\* obj.compare_value = v the object equals exactly what has the key v.
C20_Equality ==
    /\ \A i, j \in Objects :
           (i # j /\ cmp_value[i] \in IdValues /\ cmp_value[j] \in IdValues)
               => ~Eq(cmp_value, i, Object(j))
    /\ [][ /\ (callOp' = "eq") =>
                 callRet' = (cmp_value[callArgs'.obj]
                                 = KeyOf(cmp_value, callArgs'.other))
           /\ (callOp' = "ne") =>
                 callRet' = ~Eq(cmp_value, callArgs'.obj, callArgs'.other)
           /\ (callOp' = "compare_value") =>
                 \A other \in Others :
                     Eq(cmp_value', callArgs'.obj, other)
                         = (KeyOf(cmp_value', other) = callArgs'.other.v)
         ]_vars

\* An object that took the key of the other one, created without a key, has
\* since been found equal to it.
C20_Witness ==
    /\ callOp = "eq" /\ callRet = TRUE
    /\ callArgs.other.obj /\ callArgs.other.v # callArgs.obj
    /\ cmp_value[callArgs.obj] \in IdValues

C22_Resized ==
    (gRow > 0 /\ gCol > 0) =>
        \A w \in 0 .. MaxGSize, h \in 0 .. MaxGSize :
            LET res == GridResize(gridRect, gCells, gRow, gCol, w, h)
                cw == w \div gCol
                ch == h \div gRow
            IN  /\ ~res.err
                /\ res.rect = Rect(gridRect.x, gridRect.y, w, h)
                /\ \A p \in Positions(gRow, gCol) :
                       res.cells[p].rect =
                           Rect(gridRect.x + p[2] * cw, gridRect.y + p[1] * ch,
                                cw, ch)
                /\ (gridOp = "resize") =>
                       \A p \in Positions(gRow, gCol) :
                           /\ gCells[p].rect.w = gridRect.w \div gCol
                           /\ gCells[p].rect.h = gridRect.h \div gRow

\* A 2 x 2 grid moved to (1, 1) was resized to a width its columns do not
\* divide.
C22_Witness ==
    /\ gridOp = "resize" /\ gRow = 2 /\ gCol = 2
    /\ gridRect = Rect(1, 1, 1, 2)
    /\ gCells[<<1, 1>>].rect = Rect(1, 2, 0, 1)

(***************************************************************************)
(* Grid.resize with a rejected dimension (specification SpecResize)        *)
(***************************************************************************)
NegativeSizes == { <<-1, 1>>, <<1, -1>>, <<-1, -1>> }

\* resize(w, h) with a negative dimension on a built grid: TypeError comes
\* out of the first cell's resize, after self.rect.size = (w, h).
grid_resize_negative ==
    \E a \in NegativeSizes :
        /\ gRow > 0 /\ gCol > 0
        /\ LET res == GridResize(gridRect, gCells, gRow, gCol, a[1], a[2])
           IN  /\ res.err
               /\ GridStep(res, gRow, gCol, "resize_error")

\* After a failed resize the model follows resizes only: they assign the
\* rect's size anew.
SpecResize ==
    /\ InitGrid
    /\ [][ \/ gridOp # "resize_error" /\ grid_build
           \/ gridOp # "resize_error" /\ grid_move_at
           \/ grid_resize
           \/ grid_resize_negative
       ]_vars

\* C29: when Grid.resize(w, h) fails because a dimension is rejected, the
\* grid's rect and every cell's rect are the same as before the call.
C29_ResizeFailsClean ==
    [][ (gridOp' = "resize_error") =>
            /\ gridRect' = gridRect
            /\ \A p \in DOMAIN gCells : gCells'[p].rect = gCells[p].rect
      ]_vars

(***************************************************************************)
(* gameutils.rects_collide_at (specification SpecCollide)                  *)
(***************************************************************************)
MaxRects == 3

CollideRects ==
    { Rect(0, 0, 2, 2), Rect(1, 1, 2, 2), Rect(2, 1, 2, 1) }

\* Rect.colliderect(b): the rects share a point of their areas; rects that
\* only touch at an edge do not collide.
CollideRect(a, b) ==
    /\ \/ (a.x >= b.x /\ a.x < b.x + b.w)
       \/ (b.x >= a.x /\ b.x < a.x + a.w)
    /\ \/ (a.y >= b.y /\ a.y < b.y + b.h)
       \/ (b.y >= a.y /\ b.y < a.y + a.h)

\* list.pop(index) on a copy: the list without its element at index
\* (indices count from 0).
Popped(lst, index) ==
    [k \in 1 .. Len(lst) - 1 |-> IF k - 1 < index THEN lst[k] ELSE lst[k + 1]]

\* Rect.collidelistall(lst): the indices, ascending, of the rects colliding.
RECURSIVE CollideListAll(_, _, _)
CollideListAll(r, lst, k) ==
    IF k > Len(lst) THEN << >>
    ELSE (IF CollideRect(r, lst[k]) THEN << k - 1 >> ELSE << >>)
             \o CollideListAll(r, lst, k + 1)

AdjustedNot(i, index) == i

\* i + (i >= index)
Adjusted(i, index) == IF i >= index THEN i + 1 ELSE i

\* rects_collide_at(rects, index): the result and the caller's list after it.
RectsCollideAt(rects, index) ==
    LET found == CollideListAll(rects[index + 1], Popped(rects, index), 1)
    IN  [val |-> [k \in DOMAIN found |-> Adjusted(found[k], index)],
         rects |-> rects]

rects_collide_at ==
    \E n \in 1 .. MaxRects :
        \E rects \in [1 .. n -> CollideRects], index \in 0 .. n - 1 :
            /\ callOp' = "rects_collide_at"
            /\ callArgs' = [rects |-> rects, index |-> index]
            /\ callRet' = RectsCollideAt(rects, index)
            /\ UNCHANGED notCall

InitCollide ==
    /\ CallIdle /\ ActionsIdle /\ CompareIdle
    /\ BounceIdle /\ CellIdle /\ GridIdle /\ ShapeIdle /\ TableIdle /\ StartIdle /\ RegistryIdle

SpecCollide == InitCollide /\ [][rects_collide_at]_vars

DistSizes == { <<1, 1>>, <<2, 1>>, <<3, 2>> }

DistBounds == { Rect(0, 0, 2, 1), Rect(0, 0, 4, 3), Rect(1, 1, 3, 2) }

Pads == { 0, 1 }

\* The loop of distribute_rects from the rect at position pos (from 0) on:
\* last is lastRect, start is newRowStartPoint; the rects are moved in place.
RECURSIVE DistributeFrom(_, _, _, _, _, _)
DistributeFrom(pos, rects, last, start, b, pad) ==
    IF pos >= Len(rects) THEN [rects |-> rects, pos |-> pos]
    ELSE LET rect == rects[pos + 1]
             newRow == Right(last) + rect.w + pad > b.w
             noRoom == IF newRow
                       THEN \/ start[1] + rect.h + pad > b.h
                            \/ start[2] + rect.w + pad > b.w
                       ELSE Top(last) + rect.h + pad > b.h
             to == IF newRow THEN start
                   ELSE << Right(last) + pad, Top(last) >>
             placed == SetAttr(rect, "topleft", to)
             start2 == IF Bottom(placed) > start[2]
                       THEN << start[1], Bottom(placed) + pad >>
                       ELSE start
         IN  IF noRoom THEN [rects |-> rects, pos |-> pos]
             ELSE DistributeFrom(pos + 1, [rects EXCEPT ![pos + 1] = placed],
                                 placed, start2, b, pad)

\* distribute_rects(rects, in_rect, pad)
DistributeRects(rects, b, pad) ==
    DistributeFrom(0, rects, Rect(b.x + pad, b.y + pad, pad, pad),
                   << Left(b) + pad, rects[1].h + pad >>, b, pad)

distribute_rects ==
    \E n \in 1 .. MaxRects :
        \E sizes \in [1 .. n -> DistSizes], b \in DistBounds, pad \in Pads :
            LET rects == [k \in 1 .. n |-> Rect(0, 0, sizes[k][1], sizes[k][2])]
            IN  /\ callOp' = "distribute_rects"
                /\ callArgs' = [rects |-> rects, in_rect |-> b, pad |-> pad]
                /\ callRet' = DistributeRects(rects, b, pad)
                /\ UNCHANGED notCall

SpecDistribute == InitCollide /\ [][distribute_rects]_vars

\* C24: distribute_rects(rects, in_rect, pad) returns the rectangles with
\* pos, the number of leading rectangles that were placed; every placed
\* rectangle lies inside in_rect and overlaps no other placed rectangle,
\* wherever in_rect is; and pos = 0 when the first rectangle is wider than
\* in_rect.
C24_Distributed ==
    (callOp = "distribute_rects") =>
        LET rs == callRet.rects
            pos == callRet.pos
            b == callArgs.in_rect
        IN  /\ pos \in 0 .. Len(rs)
            /\ \A i \in 1 .. pos : RectContains(b, rs[i])
            /\ \A i, j \in 1 .. pos : i # j => ~CollideRect(rs[i], rs[j])
            /\ (callArgs.rects[1].w > b.w) => pos = 0

(***************************************************************************)
(* baseObjects.Image: a registry of classes tried in order                 *)
(* (specification SpecImage)                                               *)
(***************************************************************************)
ImageClasses == { "A", "B", "C" }

\* The pos argument of register; None is the default.
RegisterPos == { None, <<0>>, <<1>> }

\* What the arguments of a construction decide: the classes whose
\* constructor raises with them.
Failing == { {}, {"A"}, {"B"}, {"A", "B"}, {"A", "B", "C"} }

\* othercls in cls._classes
InClasses(lst, c) == \E k \in DOMAIN lst : lst[k] = c

InsertLast(lst, pos, c) == Append(lst, c)

\* list.insert(pos, c) for pos >= 0: past the end it appends.
Insert(lst, pos, c) ==
    LET at == Min(pos, Len(lst))
    IN  [k \in 1 .. Len(lst) + 1 |->
            IF k <= at THEN lst[k] ELSE IF k = at + 1 THEN c ELSE lst[k - 1]]

\* for c in cls._classes: the first class from the k-th on whose constructor
\* does not raise, or ImageInstanceError after the last.
RECURSIVE TryFrom(_, _, _)
TryFrom(lst, k, fails) ==
    IF k > Len(lst) THEN [err |-> TRUE, inst |-> ""]
    ELSE IF lst[k] \in fails THEN TryFrom(lst, k + 1, fails)
    ELSE [err |-> FALSE, inst |-> lst[k]]

\* Image.__new__(args, kwords, othercls, error)
ImageNew(lst, fails, othercls, error) ==
    IF othercls # None /\ othercls[1] \notin fails
    THEN [err |-> FALSE, inst |-> othercls[1]]
    ELSE IF othercls # None /\ error THEN [err |-> TRUE, inst |-> ""]
    ELSE TryFrom(lst, 1, fails)

ImageStep(op, args, lst, ret) ==
    /\ callOp' = op
    /\ callArgs' = args
    /\ callRet' = ret
    /\ classes' = lst
    /\ UNCHANGED notRegistryCall

register ==
    \E c \in ImageClasses, pos \in RegisterPos :
        ImageStep("register", [cls |-> c, pos |-> pos],
                  IF InClasses(classes, c) THEN classes
                  ELSE Insert(classes,
                              IF pos = None THEN Len(classes) ELSE pos[1], c),
                  None)

empty == ImageStep("empty", None, << >>, None)

\* Image(args): no othercls
image_new ==
    \E fails \in Failing :
        ImageStep("Image", [fails |-> fails, othercls |-> None, error |-> FALSE],
                  classes, ImageNew(classes, fails, None, FALSE))

\* Image(args, othercls=c, error=e)
image_new_othercls ==
    \E fails \in Failing, c \in ImageClasses, error \in BOOLEAN :
        ImageStep("Image", [fails |-> fails, othercls |-> <<c>>, error |-> error],
                  classes, ImageNew(classes, fails, <<c>>, error))

InitImage ==
    /\ RegistryIdle /\ CallIdle /\ ActionsIdle /\ CompareIdle
    /\ BounceIdle /\ CellIdle /\ GridIdle /\ ShapeIdle /\ TableIdle /\ StartIdle

SpecImage ==
    /\ InitImage
    /\ [][ \/ register
           \/ empty
           \/ image_new
           \/ image_new_othercls
       ]_vars

\* C25: Image(...) without othercls tries the registered classes in registry
\* order - register(c) appends, register(c, pos=0) puts c first, registering
\* a registered class changes nothing - and returns the instance of the
\* first class whose construction succeeds; it raises ImageInstanceError
\* when the registry is empty or every class fails; creating instances,
\* also through an unregistered othercls, never changes the registry.
C25_Registry ==
    [][ /\ (callOp' = "register") =>
              LET c == callArgs'.cls
              IN  IF \E k \in DOMAIN classes : classes[k] = c
                  THEN classes' = classes
                  ELSE /\ (callArgs'.pos = None) => classes' = classes \o <<c>>
                       /\ (callArgs'.pos = <<0>>) => classes' = <<c>> \o classes
        /\ (callOp' = "Image") => classes' = classes
        /\ (callOp' = "Image" /\ callArgs'.othercls = None) =>
              LET ok == { k \in DOMAIN classes :
                              classes[k] \notin callArgs'.fails }
              IN  /\ callRet'.err = (ok = {})
                  /\ (ok # {}) =>
                        \E k \in ok : /\ \A j \in ok : k <= j
                                      /\ callRet'.inst = classes[k]
      ]_vars

\* With B put before A by register(B, pos=0), Image() with arguments B's
\* constructor rejects returned an instance of A.
C25_Witness ==
    /\ callOp = "Image" /\ callArgs.othercls = None
    /\ classes = <<"B", "A">> /\ callArgs.fails = {"B"}
    /\ callRet = [err |-> FALSE, inst |-> "A"]

(***************************************************************************)
(* Cell.set_item_attrs (specification SpecAttrs)                           *)
(***************************************************************************)
CellSetItemAttrsAlways(c, has, it, ri, update) ==
    [rect |-> c, pre |-> it, item |-> UpdateItem(has, it, c, ri)]

\* set_item_attrs(attrs, update): the rule set is replaced, and update_item
\* runs when update is true.
CellSetItemAttrs(c, has, it, ri, update) ==
    [rect |-> c, pre |-> it,
     item |-> IF update THEN UpdateItem(has, it, c, ri) ELSE it]

cell_set_item_attrs ==
    \E ri \in 1 .. Len(RuleSets), update \in BOOLEAN :
        /\ CellStep(CellSetItemAttrs(cellRect, hasItem, item, ri, update),
                    hasItem, ri, "set_item_attrs", update)
        /\ UNCHANGED cellVel

SpecAttrs ==
    /\ InitCell
    /\ [][ \/ cell_add_item_default
           \/ cell_set_item_attrs
           \/ cell_update_item
           \/ cell_move
       ]_vars

\* C26: Cell.set_item_attrs(rules) replaces the rule set and re-derives the
\* item at once; with update=False it replaces the rule set and leaves the
\* item's rect as it was, and the new rules take effect at the next
\* update_item() or move of the cell.
C26_SetItemAttrs ==
    [][ /\ (cellOp' = "set_item_attrs") =>
              /\ cellRect' = cellRect /\ hasItem' = hasItem
              /\ item' = IF cellUpd' /\ hasItem
                         THEN AsRules(item, cellRect, RuleSets[rules'])
                         ELSE item
        /\ (cellOp' \in { "update_item", "move" }) =>
              /\ rules' = rules
              /\ hasItem => item' = AsRules(item, cellRect', RuleSets[rules])
      ]_vars

\* An item still centred in its cell right after set_item_attrs put another
\* rule in place with update=False.
C26_Witness ==
    /\ cellOp = "set_item_attrs" /\ ~cellUpd /\ hasItem /\ rules = 2
    /\ item.y # cellRect.y + cellRect.h

(***************************************************************************)
(* update_item() twice (specification SpecAttrs)                           *)
(***************************************************************************)
SizeAttrNames == { "w", "h", "width", "height", "size" }

\* No rule of the set is a callable.
NoCallable(rs) == \A k \in DOMAIN rs : rs[k].kind # "call"

\* Every rule that sets a size of the item comes before every rule that
\* sets a position.
SizesFirst(rs) ==
    \A j, k \in DOMAIN rs :
        (j < k /\ rs[k].attr \in SizeAttrNames) => rs[j].attr \in SizeAttrNames

\* C27 (as stated): for rule sets without callables, in any rule order, a
\* second update_item() with the cell rect and the rule set unchanged leaves
\* the item's rect as the first call left it.
C27_IdempotentAsStated ==
    (cellOp = "update_item" /\ hasItem /\ NoCallable(RuleSets[rules])) =>
        UpdateItem(hasItem, item, cellRect, rules) = item

\* C27 (amended): for rule sets without callables whose size rules all come
\* before their position rules, a second update_item() with the cell rect
\* and the rule set unchanged leaves the item's rect as the first call left
\* it.
C27_Idempotent ==
    (/\ cellOp = "update_item" /\ hasItem
     /\ NoCallable(RuleSets[rules]) /\ SizesFirst(RuleSets[rules])) =>
        UpdateItem(hasItem, item, cellRect, rules) = item

\* update_item() has run with the rules width, height, center on an item
\* that had another size.
C27_Witness ==
    /\ cellOp = "update_item" /\ hasItem /\ rules = 4
    /\ item = Rect(1, 3, 2, 1)

(***************************************************************************)
(* Cell.move_bouncing with union=True, again and again                     *)
(* (specification SpecUnion)                                               *)
(***************************************************************************)
\* RuleSets[2] is {'top': 'bottom'}, RuleSets[3] {'bottomright': 'topleft'}.
UnionRules == { 2, 3 }

UnionVelArgs == { <<1, 0>>, <<-1, 1>>, <<2, -2>>, <<0, -1>> }

\* move_bouncing(bounce_rect, velocity, union=True), and
\* move_bouncing(bounce_rect, union=True) with the cell's own velocity
cell_move_bouncing_union ==
    \E hasV \in BOOLEAN, v \in UnionVelArgs :
        LET x == IF hasV THEN v[1] ELSE cellVel[1]
            y == IF hasV THEN v[2] ELSE cellVel[2]
            res == CellMoveBouncing(cellRect, hasItem, item, rules, x, y, TRUE)
        IN  /\ cellVel' = res.vel
            /\ CellStep(res, hasItem, rules, "move_bouncing", TRUE)

\* A cell with an item added under one of the rule sets, both inside the
\* bound.
UnionInit ==
    /\ \E sz \in CellSizes, pos \in MoveAtArgs :
           cellRect = Rect(pos[1], pos[2], sz[1], sz[2])
    /\ cellVel \in UnionVelArgs
    /\ hasItem = TRUE
    /\ rules \in UnionRules
    /\ \E sz \in ItemSizes, ix \in 0 .. MaxPos :
           item = UpdateItem(TRUE, Rect(ix, 0, sz[1], sz[2]), cellRect, rules)
    /\ RectContains(CellBound, cellRect)
    /\ RectContains(CellBound, item)
    /\ itemFresh = TRUE
    /\ cellOp = "add_item"
    /\ cellUpd = TRUE

InitUnion ==
    /\ UnionInit /\ CallIdle /\ ActionsIdle /\ CompareIdle /\ RegistryIdle
    /\ BounceIdle /\ GridIdle /\ ShapeIdle /\ TableIdle /\ StartIdle

SpecUnion == InitUnion /\ [][cell_move_bouncing_union]_vars

SpecBounceLive == InitBounce /\ [][BounceOwn]_vars /\ WF_vars(BounceOwn)

\* The object reverses on the x axis, and on the y axis, again and again.
ReversesX == []<>(velocity[1] > 0) /\ []<>(velocity[1] < 0)
ReversesY == []<>(velocity[2] > 0) /\ []<>(velocity[2] < 0)

\* The object does not stay at one edge of the bound for ever.
NotPinnedX ==
    /\ []<>(Left(obj) # Left(BounceRect))
    /\ []<>(Right(obj) # Right(BounceRect))
NotPinnedY ==
    /\ []<>(Top(obj) # Top(BounceRect))
    /\ []<>(Bottom(obj) # Bottom(BounceRect))

\* C30 (as stated): an object with a non-zero velocity component on an axis,
\* moved again and again with move_bouncing(bound) and its own velocity in a
\* bound at least as large as the object, reverses direction on that axis
\* infinitely often: it never keeps the same sign for ever and never stays
\* pinned to one edge of the bound.
C30_ReversesAsStated ==
    /\ (velocity[1] # 0 /\ obj.w <= BounceRect.w) => (ReversesX /\ NotPinnedX)
    /\ (velocity[2] # 0 /\ obj.h <= BounceRect.h) => (ReversesY /\ NotPinnedY)

\* C30 (amended): such an object never keeps the same sign on that axis for
\* ever, and when the bound is larger than the object on that axis it never
\* stays pinned to one edge of the bound.
C30_Reverses ==
    /\ (velocity[1] # 0 /\ obj.w <= BounceRect.w) => ReversesX
    /\ (velocity[1] # 0 /\ obj.w < BounceRect.w) => NotPinnedX
    /\ (velocity[2] # 0 /\ obj.h <= BounceRect.h) => ReversesY
    /\ (velocity[2] # 0 /\ obj.h < BounceRect.h) => NotPinnedY

\* An object narrower than the bound has come to the bound's right edge with
\* its own velocity and now heads left.
C30_Witness ==
    /\ bounced /\ ~given /\ obj.w > 0 /\ obj.w < BounceRect.w
    /\ Right(obj) = Right(BounceRect) /\ velocity[1] < 0

==========================================================================
